---- MODULE Spec2Model ----
(***************************************************************************)
(* Model of the query engine of Tweet-Search (src/main.py): class Query    *)
(* with its LinkedList of ranked clauses, the Berkeley DB cursor scans and *)
(* the intersection loop of get_results.                                   *)
(*                                                                         *)
(* Strings are sequences of one-character strings; byte order is given by  *)
(* Ord.  An index (dates_db, terms_db) is the sequence of its <<key,       *)
(* value>> entries in B-tree order.  A cursor is a position in that        *)
(* sequence, 0 standing for "not positioned" and for the None a failed     *)
(* cursor call returns.                                                    *)
(***************************************************************************)
EXTENDS Integers, Sequences, FiniteSets, TLC

VARIABLES
    dates_db,     \* Query.dates_db : entries of da.idx in key order
    terms_db,     \* Query.terms_db : entries of te.idx in key order
    terms,        \* Query.terms    : query.split()
    linked_list,  \* Query.linked_list, head first
    results,      \* Query.results  : [isNone, val]
    pc,           \* position of the caller: sort_terms / loop / after_loop / done / raised
    i,            \* index in terms of the token sort_terms handles next
    current,      \* get_results' current node (index in linked_list, 0 = None)
    scans,        \* history: one entry per clause scanned by get_results
    ret           \* value returned by get_results

vars == <<dates_db, terms_db, terms, linked_list, results, pc, i, current, scans, ret>>

\* ------------------------------------------------------------------ bounds

\* longest query (number of tokens) of the specification Spec
MaxTerms == 2
\* number of records of the corpus of the specification Spec
MaxRecs == 2
\* number of records of the dates index of the specification SpecDates
MaxDateRecs == 3
\* number of entries of the terms index of the specification SpecTerms
MaxTermEntries == 3

\* ----------------------------------------------------------------- strings

\* Python's None, for prefix and mid
None == <<"None">>

\* the byte of a character
Ord(c) ==
    CASE c = "%" -> 37 [] c = "-" -> 45 [] c = "/" -> 47
      [] c = "0" -> 48 [] c = "1" -> 49 [] c = "2" -> 50 [] c = "3" -> 51
      [] c = ":" -> 58 [] c = "<" -> 60 [] c = ">" -> 62
      [] c = "a" -> 97 [] c = "b" -> 98 [] c = "c" -> 99 [] c = "d" -> 100
      [] c = "e" -> 101 [] c = "i" -> 105 [] c = "l" -> 108 [] c = "m" -> 109
      [] c = "n" -> 110 [] c = "o" -> 111 [] c = "t" -> 116 [] c = "x" -> 120

\* bytes comparison s < t
RECURSIVE bytes_less_from(_, _, _)
bytes_less_from(s, t, k) ==
    IF k > Len(t) THEN FALSE
    ELSE IF k > Len(s) THEN TRUE
    ELSE IF Ord(s[k]) < Ord(t[k]) THEN TRUE
    ELSE IF Ord(s[k]) > Ord(t[k]) THEN FALSE
    ELSE bytes_less_from(s, t, k + 1)

bytes_less(s, t) == bytes_less_from(s, t, 1)

bytes_ge(s, t) == ~bytes_less(s, t)

\* Python's  sub in s  on strings
str_in(sub, s) ==
    \E k \in 0..(Len(s) - Len(sub)) : SubSeq(s, k + 1, k + Len(sub)) = sub

\* Python's  s.split(sep)  for a one-character sep
RECURSIVE str_split(_, _)
str_split(s, sep) ==
    IF ~str_in(<<sep>>, s) THEN <<s>>
    ELSE LET k == CHOOSE k \in 1..Len(s) :
                      s[k] = sep /\ \A j \in 1..(k - 1) : s[j] # sep
         IN  <<SubSeq(s, 1, k - 1)>> \o str_split(SubSeq(s, k + 1, Len(s)), sep)

\* Python's  sorted(set)  on record identifiers
RECURSIVE sorted(_)
sorted(S) ==
    IF S = {} THEN <<>>
    ELSE LET m == CHOOSE m \in S : \A x \in S : m <= x
         IN  <<m>> \o sorted(S \ {m})

\* ------------------------------------------------------------ the cursors

\* the smallest position of a set of positions, 0 (None) when there is none
first_of(S) == IF S = {} THEN 0 ELSE CHOOSE k \in S : \A j \in S : k <= j

\* DBCursor.set(key): the first entry whose key is key
curs_set(db, key) == first_of({k \in 1..Len(db) : db[k][1] = key})

\* set_range landing on the first key strictly greater than key
curs_set_range_strict(db, key) ==
    first_of({k \in 1..Len(db) : bytes_less(key, db[k][1])})

\* DBCursor.set_range(key): the first entry whose key is >= key
curs_set_range(db, key) ==
    first_of({k \in 1..Len(db) : bytes_ge(db[k][1], key)})

\* DBCursor.first()
curs_first(db) == IF Len(db) > 0 THEN 1 ELSE 0

\* DBCursor.next(): the next entry, duplicates included
curs_next(db, pos) ==
    IF pos = 0 THEN curs_first(db)
    ELSE IF pos < Len(db) THEN pos + 1 ELSE 0

\* DBCursor.next_dup(): the next entry if it has the same key
curs_next_dup(db, pos) ==
    IF pos < Len(db) /\ db[pos + 1][1] = db[pos][1] THEN pos + 1 ELSE 0

\* next_nodup stepping to the next entry, duplicate or not
curs_next_nodup_dups(db, pos) == curs_next(db, pos)

\* DBCursor.next_nodup(): the first entry of the next distinct key; on a cursor
\* that is not positioned it is first()
curs_next_nodup(db, pos) ==
    IF pos = 0 THEN curs_first(db)
    ELSE first_of({k \in 1..Len(db) : k > pos /\ db[k][1] # db[pos][1]})

\* ------------------------------------------------------------- the scans

\* the while loop shared by match_query and match_general
RECURSIVE match_loop(_, _, _, _, _)
match_loop(db, iter, needle, partial, matches) ==
    IF iter # 0 /\ str_in(needle, db[iter][1])
    THEN match_loop(db,
                    IF partial THEN curs_next(db, iter) ELSE curs_next_dup(db, iter),
                    needle, partial, matches \cup {db[iter][2]})
    ELSE matches

match_query(q_db, query, partial) ==
    match_loop(q_db,
               IF partial THEN curs_set_range(q_db, query) ELSE curs_set(q_db, query),
               query, partial, {})

general_prefixes == << <<"l", "-">>, <<"n", "-">>, <<"t", "-">> >>

RECURSIVE match_general_from(_, _, _, _)
match_general_from(k, term, partial, matches) ==
    IF k > 3 THEN matches
    ELSE LET key == general_prefixes[k] \o term
         IN  match_general_from(k + 1, term, partial,
                 match_loop(terms_db,
                            IF partial THEN curs_set_range(terms_db, key)
                                       ELSE curs_set(terms_db, key),
                            term, partial, matches))

match_general(term, partial) == match_general_from(1, term, partial, {})

\* get_terms raises IndexError on prefix[0] when prefix is the empty string
get_terms_raises(term, prefix) == prefix # None /\ Len(prefix) = 0

get_terms(term, prefix) ==
    LET partial == Len(term) > 0 /\ term[Len(term)] = "%"
        body    == IF partial THEN SubSeq(term, 1, Len(term) - 1) ELSE term
    IN  IF prefix = None
        THEN match_general(body, partial)
        ELSE match_query(terms_db, <<prefix[1], "-">> \o body, partial)

RECURSIVE match_range_loop(_, _, _, _)
match_range_loop(iter, date, mid, matches) ==
    IF iter = 0 THEN matches
    ELSE IF mid = "<" /\ bytes_ge(dates_db[iter][1], date) THEN matches
    ELSE match_range_loop(curs_next(dates_db, iter), date, mid,
                          matches \cup {dates_db[iter][2]})

match_range(date, mid) ==
    LET pos == curs_set_range(dates_db, date)
    IN  match_range_loop(IF mid = "<" THEN curs_first(dates_db)
                                      ELSE curs_next_nodup(dates_db, pos),
                         date, mid, {})

get_dates(date, mid) ==
    IF mid = ":" THEN match_query(dates_db, date, FALSE)
    ELSE match_range(date, mid)

\* ------------------------------------------------------------ the parser

name_ == <<"n", "a", "m", "e">>
location_ == <<"l", "o", "c", "a", "t", "i", "o", "n">>
text_ == <<"t", "e", "x", "t">>
date_ == <<"d", "a", "t", "e">>

t_prefixes == {text_ \o <<":">>, name_ \o <<":">>, location_ \o <<":">>}
d_prefixes == {date_ \o <<":">>, date_ \o <<"<">>, date_ \o <<">">>}

valid_prefixes(prefix) == prefix \in t_prefixes \/ prefix \in d_prefixes

classify_term(term, prefix, mid, partial) ==
    IF prefix = date_
    THEN IF mid = <<":">> THEN 4 ELSE 9
    ELSE IF partial
    THEN IF prefix = name_ THEN 6
         ELSE IF prefix = location_ THEN 7
         ELSE IF prefix = text_ THEN 8
         ELSE 10
    ELSE IF prefix = name_ THEN 1
         ELSE IF prefix = location_ THEN 2
         ELSE IF prefix = text_ THEN 3
         ELSE 5

\* sort_terms, lines 152-155: the token ends in '%'
partial_of(term) == Len(term) > 0 /\ term[Len(term)] = "%"

\* sort_terms, lines 157-162: the separator looked for, ':' before '>' before '<'
mid_of(term) ==
    IF str_in(<<":">>, term) THEN <<":">>
    ELSE IF str_in(<<">">>, term) THEN <<">">>
    ELSE IF str_in(<<"<">>, term) THEN <<"<">>
    ELSE None

\* sort_terms, line 165: the unpacking  prefix, word = term.split(mid)  raises
\* ValueError unless the split has exactly two parts
split_raises(term) ==
    mid_of(term) # None /\ Len(str_split(term, mid_of(term)[1])) # 2

\* sort_terms, lines 148-176: the node data of one token; k is the token's
\* position in the query, kept beside the data to tell equal tokens apart
node_data(term, k) ==
    LET mid     == mid_of(term)
        parts   == IF mid # None THEN str_split(term, mid[1]) ELSE <<>>
        prefix0 == IF mid # None THEN parts[1] ELSE None
        word0   == IF mid # None THEN parts[2] ELSE term
        code    == classify_term(word0, prefix0, mid, partial_of(term))
        truthy  == prefix0 # None /\ Len(prefix0) > 0
        valid   == valid_prefixes(prefix0 \o mid)
    IN  [code   |-> code,
         prefix |-> IF truthy THEN (IF ~valid THEN None ELSE prefix0 \o mid)
                              ELSE prefix0,
         term   |-> IF truthy /\ ~valid THEN term ELSE word0,
         pos    |-> k]

\* LinkedList.insert, lines 46-55: the node before which the new node goes
\* (Len + 1: at the end)
RECURSIVE insert_walk(_, _, _)
insert_walk(list, code, cur) ==
    IF cur > Len(list) THEN cur
    ELSE IF code <= list[cur].code THEN cur
    ELSE insert_walk(list, code, cur + 1)

insert(list, data) ==
    LET cur == insert_walk(list, data.code, 1)
    IN  SubSeq(list, 1, cur - 1) \o <<data>> \o SubSeq(list, cur, Len(list))

\* Node.get_next / LinkedList.get_head on the sequence: 0 is None
get_head(list) == IF Len(list) > 0 THEN 1 ELSE 0

get_next(list, cur) == IF cur < Len(list) THEN cur + 1 ELSE 0

\* ------------------------------------------------------------- get_results

\* lines 114-117: the scan of one clause
scan_raises(data) ==
    /\ (data.prefix = None \/ ~str_in(date_, data.prefix))
    /\ get_terms_raises(data.term, data.prefix)

scan(data) ==
    IF data.prefix = None \/ ~str_in(date_, data.prefix)
    THEN get_terms(data.term, data.prefix)
    ELSE get_dates(data.term, data.prefix[Len(data.prefix)])

\* the test of line 119 never taken
no_records_never(records) == FALSE

\* line 119
no_records(records) == Cardinality(records) = 0

\* line 126 joining the sets instead
intersection_union(res, records) == res \cup records

\* line 126
intersection(res, records) == res \cap records

\* line 129:  self.results and len(self.results) == 0
exit_on_empty(res) == res # {} /\ Cardinality(res) = 0

NoResults == [isNone |-> TRUE, val |-> {}]

Some(S) == [isNone |-> FALSE, val |-> S]

\* --------------------------------------------------------------- actions

\* Query.__init__, lines 96-98, on a query and a pair of indexes
Start(q, ddb, tdb) ==
    /\ dates_db = ddb
    /\ terms_db = tdb
    /\ terms = q
    /\ linked_list = <<>>
    /\ results = NoResults
    /\ pc = "sort_terms"
    /\ i = 1
    /\ current = 0
    /\ scans = <<>>
    /\ ret = <<>>

\* one iteration of the loop of sort_terms
SortTermsStep ==
    /\ pc = "sort_terms"
    /\ i <= Len(terms)
    /\ ~split_raises(terms[i])
    /\ linked_list' = insert(linked_list, node_data(terms[i], i))
    /\ i' = i + 1
    /\ UNCHANGED <<dates_db, terms_db, terms, results, pc, current, scans, ret>>

\* the unpacking of line 165 raises ValueError out of the constructor
SortTermsRaise ==
    /\ pc = "sort_terms"
    /\ i <= Len(terms)
    /\ split_raises(terms[i])
    /\ pc' = "ValueError"
    /\ UNCHANGED <<dates_db, terms_db, terms, linked_list, results, i, current, scans, ret>>

\* sort_terms is over and main calls get_results (line 108)
GetResultsCall ==
    /\ pc = "sort_terms"
    /\ i > Len(terms)
    /\ current' = get_head(linked_list)
    /\ pc' = IF get_head(linked_list) = 0 THEN "after_loop" ELSE "loop"
    /\ UNCHANGED <<dates_db, terms_db, terms, linked_list, results, i, scans, ret>>

\* one iteration of the loop of get_results, lines 109-131
GetResultsStep ==
    /\ pc = "loop"
    /\ ~scan_raises(linked_list[current])
    /\ LET records == scan(linked_list[current])
           res     == IF no_records(records) THEN {}
                      ELSE IF results.isNone THEN records
                      ELSE intersection(results.val, records)
           break   == no_records(records) \/ exit_on_empty(res)
           nxt     == get_next(linked_list, current)
       IN  /\ results' = Some(res)
           /\ scans' = Append(scans, [node |-> current, records |-> records,
                                      after |-> res])
           /\ current' = IF break THEN current ELSE nxt
           /\ pc' = IF break \/ nxt = 0 THEN "after_loop" ELSE "loop"
    /\ UNCHANGED <<dates_db, terms_db, terms, linked_list, i, ret>>

\* the scan of the current clause raises IndexError (get_terms, line 240)
GetResultsRaise ==
    /\ pc = "loop"
    /\ scan_raises(linked_list[current])
    /\ pc' = "IndexError"
    /\ UNCHANGED <<dates_db, terms_db, terms, linked_list, results, i, current, scans, ret>>

\* lines 133-136
GetResultsReturn ==
    /\ pc = "after_loop"
    /\ ret' = IF ~results.isNone /\ results.val # {} THEN sorted(results.val) ELSE <<>>
    /\ pc' = "done"
    /\ UNCHANGED <<dates_db, terms_db, terms, linked_list, results, i, current, scans>>

Next ==
    \/ SortTermsStep
    \/ SortTermsRaise
    \/ GetResultsCall
    \/ GetResultsStep
    \/ GetResultsRaise
    \/ GetResultsReturn

\* ---------------------------------------------------------------- inputs

\* the entries of an index in B-tree order: by key bytes, then by value
RECURSIVE index_of(_)
index_of(S) ==
    IF S = {} THEN <<>>
    ELSE LET e == CHOOSE e \in S : \A f \in S :
                      \/ bytes_less(e[1], f[1])
                      \/ (e[1] = f[1] /\ e[2] <= f[2])
         IN  <<e>> \o index_of(S \ {e})

\* all queries of at most n tokens of T
Queries(T, n) == UNION {[1..k -> T] : k \in 0..n}

\* what a tweet contributes to the indexes: its name, location, text and date
Profiles ==
    { [name |-> <<"a">>,      location |-> <<"b">>, text |-> <<"a">>, date |-> <<"1">>],
      [name |-> <<"a">>,      location |-> <<"b">>, text |-> <<"b">>, date |-> <<"2">>],
      [name |-> <<"a", "b">>, location |-> <<"a">>, text |-> <<"a">>, date |-> <<"1">>] }

Corpora == [1..MaxRecs -> Profiles]

corpus_terms(c) ==
    index_of(UNION {{ <<<<"n", "-">> \o c[r].name, r>>,
                      <<<<"l", "-">> \o c[r].location, r>>,
                      <<<<"t", "-">> \o c[r].text, r>> } : r \in DOMAIN c})

corpus_dates(c) == index_of({ <<c[r].date, r>> : r \in DOMAIN c })

\* the two tokens no scan survives: the first raises in sort_terms, the second
\* in get_terms
BadTokens == { <<"a", ":", "b", ":", "a">>, <<":", "a">> }

Tokens ==
    { name_ \o <<":", "a">>,
      name_ \o <<":", "a", "b">>,
      name_ \o <<":", "a", "%">>,
      text_ \o <<":", "a">>,
      <<"a">>,
      <<"b", "%">>,
      date_ \o <<":", "1">>,
      date_ \o <<">", "1">>,
      date_ \o <<"<", "2">> }

Init ==
    \E q \in Queries(Tokens, MaxTerms) \cup { <<t>> : t \in BadTokens }, c \in Corpora :
        Start(q, corpus_dates(c), corpus_terms(c))

Spec == Init /\ [][Next]_vars

\* queries one token longer than those of Spec, so that a clause can follow an
\* empty intersection of two non-empty match sets
InitLong ==
    \E q \in [1..(MaxTerms + 1) -> Tokens] \cup { <<t>> : t \in BadTokens },
       c \in Corpora :
        Start(q, corpus_dates(c), corpus_terms(c))

SpecLong == InitLong /\ [][Next]_vars

\* ---------------------------------------------------- inputs: the parser

PrefixWords == { name_, location_, text_, date_, <<"x">>, <<>> }

ParseTokens ==
    { w \o <<m>> \o b : w \in PrefixWords, m \in {":", "<", ">"},
                        b \in { <<"a">>, <<"a", "%">> } }
    \cup { <<"a">>, <<"a", "%">>, <<"a", "<", "b", ">", "a">> }
    \cup BadTokens

InitParse ==
    \E q \in Queries(ParseTokens, MaxTerms), c \in Corpora :
        Start(q, corpus_dates(c), corpus_terms(c))

SpecParse == InitParse /\ [][Next]_vars

\* ------------------------------------------------- inputs: the dates index

DateKeys == { <<"1">>, <<"1", "2">>, <<"2">> }

DateBounds == { <<"0">>, <<"1">>, <<"1", "2">>, <<"2">>, <<"3">> }

Absent == <<"Absent">>

\* each record has one date, or is not in the corpus
DateCorpora == [1..MaxDateRecs -> DateKeys \cup {Absent}]

dates_of(c) == index_of({ <<c[r], r>> : r \in {x \in DOMAIN c : c[x] # Absent} })

names_of(c) ==
    index_of({ <<<<"n", "-", "a">>, r>> : r \in {x \in DOMAIN c : c[x] # Absent} })

DateTokens == { date_ \o <<m>> \o d : m \in {":", "<", ">"}, d \in DateBounds }

DateQueries ==
    { <<t>> : t \in DateTokens \cup BadTokens }
    \cup { <<date_ \o <<">", "0">>, date_ \o <<":", "1">>, name_ \o <<":", "a">> >> }

InitDates ==
    \E q \in DateQueries, c \in DateCorpora :
        Start(q, dates_of(c), names_of(c))

SpecDates == InitDates /\ [][Next]_vars

\* ------------------------------------------------- inputs: the terms index

TermKeys ==
    { <<"n", "-", "a">>, <<"n", "-", "a", "b">>,
      <<"l", "-", "a">>, <<"l", "-", "b", "a">>,
      <<"t", "-", "a">>, <<"t", "-", "a", "b">> }

TermEntries == TermKeys \X {1, 2}

TermIndexes == { S \in SUBSET TermEntries : Cardinality(S) <= MaxTermEntries }

Bodies == { <<"a">>, <<"a", "b">> }

Fields == { name_ \o <<":">>, location_ \o <<":">>, text_ \o <<":">>, <<>> }

TermQueries ==
    { <<f \o b, f \o b \o <<"%">> >> : f \in Fields, b \in Bodies }
    \cup { <<f \o b \o <<"%">> >> : f \in Fields, b \in Bodies }
    \cup { <<t>> : t \in BadTokens }

InitTerms ==
    \E q \in TermQueries, S \in TermIndexes :
        Start(q, index_of({ <<<<"1">>, e[2]>> : e \in S }), index_of(S))

SpecTerms == InitTerms /\ [][Next]_vars

\* ---------------------------------------------------------------- claims

\* the clause the k-th scan of get_results was made for
clause_of(k) == linked_list[scans[k].node]

\* the records stored under key d in the dates index
keyed(d) == { dates_db[j][2] : j \in {x \in 1..Len(dates_db) : dates_db[x][1] = d} }

\* every record identifier of the two indexes
all_records ==
    { dates_db[j][2] : j \in 1..Len(dates_db) }
    \cup { terms_db[j][2] : j \in 1..Len(terms_db) }

\* every clause of the query has a match set (its scan does not raise)
all_scannable == \A k \in 1..Len(linked_list) : ~scan_raises(linked_list[k])

\* C1: for a query with at least one clause, get_results returns exactly the
\* records of the intersection of the match sets its clauses have on their own,
\* in ascending order, whatever the evaluation order and the early exit.
C1_ResultIsIntersection ==
    (pc = "done" /\ Len(linked_list) >= 1 /\ all_scannable) =>
        ret = sorted({ r \in all_records :
                         \A k \in 1..Len(linked_list) : r \in scan(linked_list[k]) })

\* a query of several clauses returned some record and left another one out
C1_Witness ==
    /\ pc = "done"
    /\ Len(linked_list) >= 2
    /\ all_scannable
    /\ ret # <<>>
    /\ \E k \in 1..Len(linked_list) :
           Cardinality(scan(linked_list[k])) > Len(ret)

\* C2: once sort_terms has inserted every token, the clause list is in
\* non-decreasing code order and clauses of equal code are in the order of the
\* query string.
C2_StableRankOrder ==
    pc \notin {"sort_terms", "ValueError"} =>
        \A a, b \in 1..Len(linked_list) :
            a < b =>
                /\ linked_list[a].code <= linked_list[b].code
                /\ linked_list[a].code = linked_list[b].code =>
                       linked_list[a].pos < linked_list[b].pos

\* the token has a separator and its text up to the first separator is none of
\* name: location: text: date: date< date>
malformed(t) ==
    /\ \E k \in 1..Len(t) : t[k] \in {":", "<", ">"}
    /\ LET k == CHOOSE k \in 1..Len(t) :
                    /\ t[k] \in {":", "<", ">"}
                    /\ \A j \in 1..(k - 1) : t[j] \notin {":", "<", ">"}
       IN  ~valid_prefixes(SubSeq(t, 1, k))

\* C3: a token with a separator but no valid prefix/separator combination does
\* not make parsing fail; its clause has prefix None and the whole token as
\* body, and is scanned as an unqualified term.
C3_MalformedFallsBack ==
    \A k \in 1..Len(terms) :
        malformed(terms[k]) =>
            /\ ~(pc = "ValueError" /\ i = k)
            /\ \A n \in 1..Len(linked_list) :
                   linked_list[n].pos = k =>
                       /\ linked_list[n].prefix = None
                       /\ linked_list[n].term = terms[k]
                       /\ ~(pc = "IndexError" /\ current = n)

\* C4: once a scan returns no record the result is the empty set, no later
\* clause is scanned and the returned sequence is empty.
C4_EmptyScanStops ==
    \A k \in 1..Len(scans) :
        scans[k].records = {} =>
            /\ k = Len(scans)
            /\ results = Some({})
            /\ pc \in {"after_loop", "done"}
            /\ ret = <<>>

\* get_results returned after a clause that was not the last one matched
\* nothing
C4_Witness ==
    /\ pc = "done"
    /\ Len(scans) >= 1
    /\ scans[Len(scans)].records = {}
    /\ scans[Len(scans)].node < Len(linked_list)

\* C5: for a date D that is a key of the dates index, date>D and date<D return
\* no record keyed D and date:D returns exactly the records keyed D.
C5_DateExclusivity ==
    \A k \in 1..Len(scans) :
        LET c == clause_of(k)
        IN  (c.prefix \in d_prefixes /\ keyed(c.term) # {}) =>
                /\ c.prefix = date_ \o <<">">> =>
                       scans[k].records \cap keyed(c.term) = {}
                /\ c.prefix = date_ \o <<"<">> =>
                       scans[k].records \cap keyed(c.term) = {}
                /\ c.prefix = date_ \o <<":">> =>
                       scans[k].records = keyed(c.term)

\* date>D was scanned with several records stored under D and later records
C5_Witness ==
    \E k \in 1..Len(scans) :
        /\ clause_of(k).prefix = date_ \o <<">">>
        /\ Cardinality(keyed(clause_of(k).term)) >= 2
        /\ scans[k].records # {}

\* C6: on the same field, the match set of the exact clause b is within the
\* match set of the wildcard clause b%.
C6_ExactWithinWildcard ==
    \A k1, k2 \in 1..Len(scans) :
        LET c1 == clause_of(k1)
            c2 == clause_of(k2)
        IN  ( /\ c1.prefix = c2.prefix
              /\ (c1.prefix = None \/ c1.prefix \in t_prefixes)
              /\ ~partial_of(c1.term)
              /\ c2.term = c1.term \o <<"%">> )
            => scans[k1].records \subseteq scans[k2].records

\* name:b and name:b% were both scanned with two records under the key n-b
\* and a longer key n-bb in the index
C6_Witness ==
    \E k1, k2 \in 1..Len(scans) :
        /\ clause_of(k1).prefix = name_ \o <<":">>
        /\ clause_of(k2).prefix = name_ \o <<":">>
        /\ ~partial_of(clause_of(k1).term)
        /\ clause_of(k2).term = clause_of(k1).term \o <<"%">>
        /\ Cardinality(scans[k1].records) >= 2
        /\ \E j \in 1..Len(terms_db) :
               terms_db[j][1] = <<"n", "-">> \o clause_of(k1).term \o <<"b">>

\* the rank table of the clause as stored
rank_table(prefix, wildcard) ==
    IF prefix = date_ \o <<":">> THEN 4
    ELSE IF prefix \in {date_ \o <<"<">>, date_ \o <<">">>} THEN 9
    ELSE IF prefix = name_ \o <<":">> THEN (IF wildcard THEN 6 ELSE 1)
    ELSE IF prefix = location_ \o <<":">> THEN (IF wildcard THEN 7 ELSE 2)
    ELSE IF prefix = text_ \o <<":">> THEN (IF wildcard THEN 8 ELSE 3)
    ELSE (IF wildcard THEN 10 ELSE 5)

\* C7: the code of every clause is the rank the table gives for the clause as
\* it is stored; a token that fell back to an unprefixed clause has 5, or 10
\* when it ends in '%'.
C7_RankMatchesTable ==
    \A n \in 1..Len(linked_list) :
        linked_list[n].code =
            rank_table(linked_list[n].prefix, partial_of(linked_list[n].term))

\* C8: once the running result is the empty set no further clause is scanned.
C8_EmptyIntersectionStops ==
    \A k \in 1..(Len(scans) - 1) : scans[k].after # {}

\* C9: date>D returns exactly the records whose date key is strictly greater
\* than D, wherever D lies among the keys.
C9_GreaterThanIsStrict ==
    \A k \in 1..Len(scans) :
        clause_of(k).prefix = date_ \o <<">">> =>
            scans[k].records =
                { dates_db[j][2] :
                    j \in {x \in 1..Len(dates_db) :
                             bytes_less(clause_of(k).term, dates_db[x][1])} }

\* the key is <tag>-<term> with the term starting with b
term_starts_with(key, b) ==
    /\ Len(key) >= 2 + Len(b)
    /\ key[1] \in {"n", "l", "t"}
    /\ key[2] = "-"
    /\ SubSeq(key, 3, 2 + Len(b)) = b

\* C10: an unqualified wildcard clause b% returns exactly the records stored
\* under a key whose term part starts with b.
C10_GeneralPrefixMatch ==
    \A k \in 1..Len(scans) :
        LET c == clause_of(k)
            b == SubSeq(c.term, 1, Len(c.term) - 1)
        IN  (c.prefix = None /\ partial_of(c.term)) =>
                scans[k].records =
                    { terms_db[j][2] :
                        j \in {x \in 1..Len(terms_db) :
                                 term_starts_with(terms_db[x][1], b)} }

====
